---- MODULE Spec2Model ----
(***************************************************************************)
(* teamconfig: one invocation of the command (run, main.go) over the       *)
(* configured cluster list, the per-cluster reconciliation (clusterExec)   *)
(* and the Kubernetes API objects it acts on (the team's service account   *)
(* and its token secrets in namespace "default" of every cluster).         *)
(*                                                                         *)
(* Strings that the program only copies are TLA+ strings.  A bearer token  *)
(* is a sequence: <<>> is the empty string, <<c, n>> the token that the    *)
(* controller of cluster c put into secret n.                              *)
(***************************************************************************)
EXTENDS Integers, Sequences, FiniteSets, TLC

\* ------------------------------------------------------------------ bounds

\* Longest cluster list given with --clusters.
MaxClusters == 2

\* Secrets the token controller may mint during one behaviour.
MaxMinted == 2

\* Invocations of the command in one behaviour of SpecRepeat.
MaxRuns == 2

\* ------------------------------------------------------------ input domains

ClusterNames == {"a", "b"}

Teams == {"", "t"}

RECURSIVE SeqsUpTo(_, _)
SeqsUpTo(S, n) ==
    IF n = 0 THEN {<<>>}
    ELSE LET shorter == SeqsUpTo(S, n - 1)
         IN  shorter \cup {Append(s, x) : s \in {t \in shorter : Len(t) = n - 1}, x \in S}

\* The values of --clusters. The program never inspects a cluster name, only
\* compares and copies it, so the lists are taken up to renaming of the
\* clusters: a non-empty list starts with "b", which keeps lists whose order
\* differs from the order of the names.
ClusterLists ==
    {l \in SeqsUpTo(ClusterNames, MaxClusters) : l = <<>> \/ l[1] = "b"}

\* ---------------------------------------------------------------- constants

Namespace == "default"

\* fmt.Sprintf("serviceuser-%s", team): the team name behind a fixed prefix.
ServiceAccountName(team) == <<"serviceuser-", team>>

\* The host the kubeconfig context of a cluster resolves to.
Host(cluster) == <<"https://", cluster>>

\* clientcmdapi.NewConfig(): three empty maps and no current context.
EmptyMap == [k \in {} |-> k]

NewConfig ==
    [AuthInfos |-> EmptyMap, Clusters |-> EmptyMap, Contexts |-> EmptyMap,
     CurrentContext |-> ""]

MapPut(m, k, v) == (k :> v) @@ m

\* ------------------------------------------------------ Kubernetes objects

\* A service account as the API server holds it in one cluster: whether the
\* object exists, its name, and its secret references in order.
NoAccount == [exists |-> FALSE, Name |-> <<>>, Secrets |-> <<>>]

Account(name, refs) == [exists |-> TRUE, Name |-> name, Secrets |-> refs]

\* A token is unique to its secret: the cluster and the secret's id.
TokenOf(cluster, id) == <<cluster, id>>

\* The Data of a token secret: "token" may be missing.
SecretData(cluster, id, withToken) ==
    [k \in (IF withToken THEN {"namespace", "token"} ELSE {"namespace"})
        |-> IF k = "token" THEN TokenOf(cluster, id) ELSE <<>>]

NoObjects == [sa |-> NoAccount, secrets |-> EmptyMap]

\* What a cluster may hold for the team before the first run: no account, an
\* account whose secret is not minted yet, an account with one token secret,
\* and an account with two secret references of which the first has no token
\* field.  Ids 1 and 2 are the pre-existing secrets, minted ones follow.
InitialClusterStates(team, cluster) ==
    { NoObjects,
      [sa |-> Account(ServiceAccountName(team), <<>>), secrets |-> EmptyMap],
      [sa |-> Account(ServiceAccountName(team), <<1>>),
       secrets |-> (1 :> [Data |-> SecretData(cluster, 1, TRUE)])],
      [sa |-> Account(ServiceAccountName(team), <<1, 2>>),
       secrets |-> (1 :> [Data |-> SecretData(cluster, 1, FALSE)])
                   @@ (2 :> [Data |-> SecretData(cluster, 2, TRUE)])] }

VARIABLES
    config,          \* the flags of the invocation
    kube,            \* cluster name -> [sa, secrets]: the API objects
    minted,          \* number of secrets minted so far
    pc,              \* position of the run
    idx,             \* position in config.Clusters of the loop of run
    deleted,         \* clusterExec's local
    serviceAccount,  \* clusterExec's local: the account as fetched
    userConfig,      \* the accumulated clientcmdapi.Config
    failed,          \* run's local
    stdout,          \* what was written to standard output
    exitCode,        \* "running", "ok" (0), "error" (1), "panic" (2)
    trace,           \* the steps and calls of this run, in order
    kubeAtStart,     \* kube when this run started
    runs,            \* invocations so far
    prev             \* outcome of the previous invocation

vars == <<config, kube, minted, pc, idx, deleted, serviceAccount, userConfig,
          failed, stdout, exitCode, trace, kubeAtStart, runs, prev>>

\* --------------------------------------------------- decisions of the code

\* Valid without the check of --revoke against --create and --rotate.
ValidTeamOnly(cfg) == cfg.Team # ""

\* run: the two validation checks.
Valid(cfg) == cfg.Team # "" /\ ~(cfg.Revoke /\ (cfg.Create \/ cfg.Rotate))

\* NeedsDelete when the deletion is attempted in every mode.
NeedsDeleteAlways(cfg) == TRUE

\* NeedsDelete when only --revoke deletes.
NeedsDeleteRevokeOnly(cfg) == cfg.Revoke

\* clusterExec: "if config.Rotate || config.Revoke".
NeedsDelete(cfg) == cfg.Rotate \/ cfg.Revoke

\* clusterExec: the deletion succeeded and the mode is Revoke: return nil.
RevokeStops(res, cfg) == res = "ok" /\ cfg.Revoke

\* DeleteTolerated when every error of the deletion is tolerated.
DeleteToleratedAny(res, cfg) == res # "ok"

\* clusterExec: "errors.IsNotFound(err) && !config.Create".
DeleteTolerated(res, cfg) == res = "notfound" /\ ~cfg.Create

\* NeedsCreate when the creation is attempted in every mode.
NeedsCreateAlways(cfg) == TRUE

\* clusterExec: "if config.Rotate || config.Create".
NeedsCreate(cfg) == cfg.Rotate \/ cfg.Create

\* CreateTolerated when already-exists is an error like any other.
CreateToleratedNever(res) == FALSE

\* clusterExec: "errors.IsAlreadyExists(err)".
CreateTolerated(res) == res = "alreadyexists"

\* ServiceAccountSecret: "len(serviceAccount.Secrets) == 0".
HasNoSecret(account) == Len(account.Secrets) = 0

\* SecretRef when the last reference is taken.
SecretRefLast(account) == account.Secrets[Len(account.Secrets)]

\* ServiceAccountSecret: "serviceAccount.Secrets[0]".
SecretRef(account) == account.Secrets[1]

\* AuthInfo when a missing token field is replaced by a placeholder.
AuthInfoPlaceholder(secret) ==
    [Token |-> IF "token" \in DOMAIN secret.Data THEN secret.Data["token"] ELSE <<"none">>]

\* AuthInfo when the wrong key of the secret's data is read.
AuthInfoWrongKey(secret) == [Token |-> secret.Data["namespace"]]

\* AuthInfo: string(secret.Data["token"]) is "" when the key is missing.
AuthInfo(secret) ==
    [Token |-> IF "token" \in DOMAIN secret.Data THEN secret.Data["token"] ELSE <<>>]

\* WithEntry when the context is not stored.
WithEntryNoContext(uc, cluster, authInfo, host) ==
    [uc EXCEPT !.AuthInfos = MapPut(@, cluster, authInfo),
               !.Clusters = MapPut(@, cluster, [Server |-> host])]

\* WithEntry when the entries are stored under the first cluster's name.
WithEntryUnderFirst(uc, cluster, authInfo, host) ==
    [uc EXCEPT !.AuthInfos = MapPut(@, config.Clusters[1], authInfo),
               !.Clusters = MapPut(@, config.Clusters[1], [Server |-> host]),
               !.Contexts = MapPut(@, config.Clusters[1],
                   [Namespace |-> "default", AuthInfo |-> cluster, Cluster |-> cluster])]

\* clusterExec: the three entries stored under the cluster's name.
WithEntry(uc, cluster, authInfo, host) ==
    [uc EXCEPT !.AuthInfos = MapPut(@, cluster, authInfo),
               !.Clusters = MapPut(@, cluster, [Server |-> host]),
               !.Contexts = MapPut(@, cluster,
                   [Namespace |-> "default", AuthInfo |-> cluster, Cluster |-> cluster])]

\* RecordOutcome when the flag is assigned the last outcome.
RecordLastOutcome(f, err) == err

\* run: "failed = true" in the error branch of the loop body.
RecordOutcome(f, err) == f \/ err

\* NextIndex when the loop breaks at the first failure.
NextIndexBreak(i, err) == IF err THEN Len(config.Clusters) + 1 ELSE i + 1

\* run: the range loop goes on to the next element whatever the outcome.
NextIndex(i, err) == i + 1

\* FirstCluster when the last element is taken.
LastCluster(clusters) == clusters[Len(clusters)]

\* run: "config.Clusters[0]".
FirstCluster(clusters) == clusters[1]

\* clientcmd.Write: the kubeconfig document, its maps written as named lists.
Serialize(uc) ==
    [kind |-> "Config",
     currentContext |-> uc.CurrentContext,
     clusters |-> {[name |-> n, cluster |-> uc.Clusters[n]] : n \in DOMAIN uc.Clusters},
     users |-> {[name |-> n, user |-> uc.AuthInfos[n]] : n \in DOMAIN uc.AuthInfos},
     contexts |-> {[name |-> n, context |-> uc.Contexts[n]] : n \in DOMAIN uc.Contexts}]

\* ------------------------------------------------------- the API server

\* Delete of the account: it is gone with its token secrets, or was absent,
\* or the call fails otherwise and changes nothing.
DeleteResults(objects) ==
    {"error"} \cup (IF objects.sa.exists THEN {"ok"} ELSE {"notfound"})

AfterDelete(objects, res) == IF res = "ok" THEN NoObjects ELSE objects

\* Create of the account: a new account without secrets, or already there.
CreateResults(objects) ==
    {"error"} \cup (IF objects.sa.exists THEN {"alreadyexists"} ELSE {"ok"})

AfterCreate(objects, name, res) ==
    IF res = "ok" THEN [sa |-> Account(name, <<>>), secrets |-> EmptyMap] ELSE objects

\* Get of the account.
GetResults(objects) ==
    {"error"} \cup (IF objects.sa.exists THEN {"ok"} ELSE {"notfound"})

\* Get of a secret by name.
SecretResults(objects, ref) ==
    {"error"} \cup (IF ref \in DOMAIN objects.secrets THEN {"ok"} ELSE {"notfound"})

\* ------------------------------------------------------------------ actions

Cluster == config.Clusters[idx]

Event(op, res) == [pos |-> idx, op |-> op, res |-> res]

\* clusterExec goes on to its next step.
Goto(next, events) ==
    /\ pc' = next
    /\ trace' = trace \o events
    /\ UNCHANGED <<idx, failed>>

\* clusterExec returns and the loop body of run records the outcome.
Return(err, events) ==
    /\ trace' = trace \o events \o <<Event("return", IF err THEN "error" ELSE "nil")>>
    /\ failed' = RecordOutcome(failed, err)
    /\ idx' = NextIndex(idx, err)
    /\ pc' = "loop"

\* run up to the loop: flags are parsed, then the two validation checks.
Validate ==
    /\ pc = "validate"
    /\ IF Valid(config)
       THEN /\ pc' = "loop"
            /\ failed' = FALSE
            /\ userConfig' = NewConfig
            /\ idx' = 1
            /\ UNCHANGED exitCode
       ELSE /\ pc' = "exited"
            /\ exitCode' = "error"
            /\ UNCHANGED <<failed, userConfig, idx>>
    /\ UNCHANGED <<config, kube, minted, deleted, serviceAccount, stdout, trace,
                   kubeAtStart, runs, prev>>

\* run: the loop takes the next cluster and calls clusterExec.
Enter ==
    /\ pc = "loop"
    /\ idx <= Len(config.Clusters)
    /\ pc' = "resolve"
    /\ trace' = Append(trace, Event("enter", Cluster))
    /\ UNCHANGED <<config, kube, minted, idx, deleted, serviceAccount, userConfig,
                   failed, stdout, exitCode, kubeAtStart, runs, prev>>

\* clusterExec: buildConfigFromFlags and KubeClient.
Resolve ==
    /\ pc = "resolve"
    /\ \E res \in {"ok", "error"} :
          IF res = "ok"
          THEN Goto("delete", <<Event("resolve", res)>>)
          ELSE Return(TRUE, <<Event("resolve", res)>>)
    /\ deleted' = FALSE
    /\ UNCHANGED <<config, kube, minted, serviceAccount, userConfig, stdout,
                   exitCode, kubeAtStart, runs, prev>>

\* clusterExec: the deletion step.
Delete ==
    /\ pc = "delete"
    /\ IF NeedsDelete(config)
       THEN \E res \in DeleteResults(kube[Cluster]) :
               /\ kube' = [kube EXCEPT ![Cluster] = AfterDelete(@, res)]
               /\ IF res = "ok"
                  THEN IF RevokeStops(res, config)
                       THEN Return(FALSE, <<Event("delete", res)>>) /\ UNCHANGED deleted
                       ELSE Goto("create", <<Event("delete", res)>>) /\ deleted' = TRUE
                  ELSE /\ UNCHANGED deleted
                       /\ IF DeleteTolerated(res, config)
                          THEN Goto("create", <<Event("delete", res)>>)
                          ELSE Return(TRUE, <<Event("delete", res)>>)
       ELSE Goto("create", <<>>) /\ UNCHANGED <<kube, deleted>>
    /\ UNCHANGED <<config, minted, serviceAccount, userConfig, stdout, exitCode,
                   kubeAtStart, runs, prev>>

\* clusterExec: the creation step.
Create ==
    /\ pc = "create"
    /\ IF NeedsCreate(config)
       THEN \E res \in CreateResults(kube[Cluster]) :
               /\ kube' = [kube EXCEPT
                             ![Cluster] = AfterCreate(@, ServiceAccountName(config.Team), res)]
               /\ IF res = "ok" \/ CreateTolerated(res)
                  THEN Goto("sleep", <<Event("create", res)>>)
                  ELSE Return(TRUE, <<Event("create", res)>>)
       ELSE Goto("get", <<>>) /\ UNCHANGED kube
    /\ UNCHANGED <<config, minted, deleted, serviceAccount, userConfig, stdout,
                   exitCode, kubeAtStart, runs, prev>>

\* clusterExec: time.Sleep(100 * time.Millisecond) ends.
Sleep ==
    /\ pc = "sleep"
    /\ Goto("get", <<Event("sleep", "ok")>>)
    /\ UNCHANGED <<config, kube, minted, deleted, serviceAccount, userConfig, stdout,
                   exitCode, kubeAtStart, runs, prev>>

\* clusterExec: fetch the service account.
Get ==
    /\ pc = "get"
    /\ \E res \in GetResults(kube[Cluster]) :
          IF res = "ok"
          THEN Goto("secret", <<Event("get", res)>>) /\ serviceAccount' = kube[Cluster].sa
          ELSE Return(TRUE, <<Event("get", res)>>) /\ UNCHANGED serviceAccount
    /\ UNCHANGED <<config, kube, minted, deleted, userConfig, stdout, exitCode,
                   kubeAtStart, runs, prev>>

\* clusterExec: fetch the secret, build the auth info, store the entries.
Secret ==
    /\ pc = "secret"
    /\ IF HasNoSecret(serviceAccount)
       THEN Return(TRUE, <<>>) /\ UNCHANGED userConfig
       ELSE \E res \in SecretResults(kube[Cluster], SecretRef(serviceAccount)) :
               IF res = "ok"
               THEN /\ userConfig' =
                         WithEntry(userConfig, Cluster,
                                   AuthInfo(kube[Cluster].secrets[SecretRef(serviceAccount)]),
                                   Host(Cluster))
                    /\ Return(FALSE, <<Event("getsecret", res)>>)
               ELSE Return(TRUE, <<Event("getsecret", res)>>) /\ UNCHANGED userConfig
    /\ UNCHANGED <<config, kube, minted, deleted, serviceAccount, stdout, exitCode,
                   kubeAtStart, runs, prev>>

\* run after the loop, up to setting the current context.
Finish ==
    /\ pc = "loop"
    /\ idx > Len(config.Clusters)
    /\ IF failed
       THEN pc' = "exited" /\ exitCode' = "error" /\ UNCHANGED userConfig
       ELSE IF config.Revoke
       THEN pc' = "exited" /\ exitCode' = "ok" /\ UNCHANGED userConfig
       ELSE IF Len(config.Clusters) = 0
       THEN pc' = "exited" /\ exitCode' = "panic" /\ UNCHANGED userConfig
       ELSE /\ pc' = "write"
            /\ userConfig' = [userConfig EXCEPT !.CurrentContext = FirstCluster(config.Clusters)]
            /\ UNCHANGED exitCode
    /\ UNCHANGED <<config, kube, minted, idx, deleted, serviceAccount, failed, stdout,
                   trace, kubeAtStart, runs, prev>>

\* run: serialise the configuration and write it to standard output.
Write ==
    /\ pc = "write"
    /\ \E res \in {"ok", "encode", "write"} :
          /\ stdout' = IF res = "ok"
                       THEN Append(stdout, [complete |-> TRUE, doc |-> Serialize(userConfig)])
                       ELSE stdout
          /\ exitCode' = IF res = "ok" THEN "ok" ELSE "error"
          /\ trace' = Append(trace, Event("write", res))
    /\ pc' = "exited"
    /\ UNCHANGED <<config, kube, minted, idx, deleted, serviceAccount, userConfig,
                   failed, kubeAtStart, runs, prev>>

\* The token controller of a cluster mints the secret of an account that has
\* none and adds the reference to the account.
Mint(cluster) ==
    /\ minted < MaxMinted
    /\ kube[cluster].sa.exists
    /\ kube[cluster].sa.Secrets = <<>>
    /\ LET id == 2 + minted + 1
       IN  kube' = [kube EXCEPT ![cluster] =
                      [sa |-> Account(@.sa.Name, <<id>>),
                       secrets |-> (id :> [Data |-> SecretData(cluster, id, TRUE)])]]
    /\ minted' = minted + 1
    /\ UNCHANGED <<config, pc, idx, deleted, serviceAccount, userConfig, failed,
                   stdout, exitCode, trace, kubeAtStart, runs, prev>>

\* The same command is invoked again after the previous invocation succeeded.
Rerun ==
    /\ pc = "exited"
    /\ exitCode = "ok"
    /\ runs < MaxRuns
    /\ prev' = [ran |-> TRUE, exitCode |-> exitCode, userConfig |-> userConfig,
                kube |-> kube, kubeAtStart |-> kubeAtStart]
    /\ runs' = runs + 1
    /\ pc' = "validate"
    /\ idx' = 1
    /\ deleted' = FALSE
    /\ serviceAccount' = NoAccount
    /\ userConfig' = NewConfig
    /\ failed' = FALSE
    /\ stdout' = <<>>
    /\ exitCode' = "running"
    /\ trace' = <<>>
    /\ kubeAtStart' = kube
    /\ UNCHANGED <<config, kube, minted>>

NoPrev == [ran |-> FALSE, exitCode |-> "running", userConfig |-> NewConfig,
           kube |-> [c \in ClusterNames |-> NoObjects],
           kubeAtStart |-> [c \in ClusterNames |-> NoObjects]]

Init ==
    /\ config \in [Clusters : ClusterLists, Team : Teams,
                   Create : BOOLEAN, Revoke : BOOLEAN, Rotate : BOOLEAN]
    /\ kube \in {k \in [ClusterNames -> UNION {InitialClusterStates(config.Team, c) : c \in ClusterNames}] :
                    \A c \in ClusterNames :
                        IF \E p \in DOMAIN config.Clusters : config.Clusters[p] = c
                        THEN k[c] \in InitialClusterStates(config.Team, c)
                        ELSE k[c] = NoObjects}
    /\ minted = 0
    /\ pc = "validate"
    /\ idx = 1
    /\ deleted = FALSE
    /\ serviceAccount = NoAccount
    /\ userConfig = NewConfig
    /\ failed = FALSE
    /\ stdout = <<>>
    /\ exitCode = "running"
    /\ trace = <<>>
    /\ kubeAtStart = kube
    /\ runs = 1
    /\ prev = NoPrev

Next ==
    \/ Validate
    \/ Enter
    \/ Resolve
    \/ Delete
    \/ Create
    \/ Sleep
    \/ Get
    \/ Secret
    \/ Finish
    \/ Write
    \/ \E c \in ClusterNames : Mint(c)

Spec == Init /\ [][Next]_vars

NextRepeat == Next \/ Rerun

SpecRepeat == Init /\ [][NextRepeat]_vars

\* ------------------------------------------------------- reading the trace

Exited == pc = "exited"

\* The flags fail validation (stated on the flags, not through Valid).
Rejected == config.Team = "" \/ (config.Revoke /\ (config.Create \/ config.Rotate))

ReadMode == ~config.Create /\ ~config.Rotate /\ ~config.Revoke

CreateOnly == config.Create /\ ~config.Rotate /\ ~config.Revoke

Positions == DOMAIN config.Clusters

Listed == {config.Clusters[p] : p \in Positions}

\* Indices of the trace where operation op at list position p gave res.
At(p, op, res) ==
    {i \in DOMAIN trace : trace[i].pos = p /\ trace[i].op = op /\ trace[i].res = res}

Ops(op) == {i \in DOMAIN trace : trace[i].op = op}

\* An external call failed for a reason other than not-found / already-exists,
\* or the output could not be encoded or written.
Faulted == \E i \in DOMAIN trace : trace[i].res \in {"error", "encode", "write"} /\ trace[i].op # "return"

SomeClusterFailed == \E p \in Positions : At(p, "return", "error") # {}

Emitted == stdout # <<>>

\* The token observable in a cluster: that of the account's first secret.
Observable(objects) ==
    objects.sa.exists /\ objects.sa.Secrets # <<>>
        /\ objects.sa.Secrets[1] \in DOMAIN objects.secrets

ObservableToken(objects) ==
    LET data == objects.secrets[objects.sa.Secrets[1]].Data
    IN  IF "token" \in DOMAIN data THEN data["token"] ELSE <<>>

\* ------------------------------------------------------------------- claims

\* C1: in Revoke mode a cluster whose deletion returned not-found is
\* reconciled without error (clusterExec returns nil, the cluster is not
\* recorded as failed), and a run in which every cluster is in this situation
\* exits with status 0.
C1_RevokeAbsentSucceeds ==
    config.Revoke =>
        /\ \A p \in Positions :
              At(p, "delete", "notfound") # {} => At(p, "return", "error") = {}
        /\ (Exited /\ ~Rejected /\ \A p \in Positions : At(p, "delete", "notfound") # {})
              => exitCode = "ok"

\* C2: in Revoke mode no identity fetch and no secret fetch is ever issued,
\* and no entry is added to the accumulated credential structure.
C2_RevokeNeverFetches ==
    config.Revoke =>
        /\ Ops("get") = {}
        /\ Ops("getsecret") = {}
        /\ DOMAIN userConfig.AuthInfos = {}
        /\ DOMAIN userConfig.Clusters = {}
        /\ DOMAIN userConfig.Contexts = {}

\* C3: a not-found result of the deletion is never fatal, whatever the flags:
\* clusterExec does not return at that step, and in Rotate mode its next step
\* is the creation.
C3_DeleteNotFoundTolerated ==
    \A i \in DOMAIN trace :
        (trace[i].op = "delete" /\ trace[i].res = "notfound" /\ i < Len(trace)) =>
            /\ trace[i + 1].op # "return"
            /\ config.Rotate => trace[i + 1].op = "create"

\* C4: Create is idempotent.  When a Create run that found the identity of a
\* cluster absent has succeeded and the same command runs again, the cluster's
\* objects stay as the first run left them, the creation answers
\* already-exists and is followed by the delay and the fetch, the cluster
\* fails only if an external call fails, and a run without such a failure
\* exits 0 with the same credential file as the first.
C4_CreateIdempotent ==
    (runs >= 2 /\ prev.ran /\ CreateOnly /\ config.Team # "") =>
        /\ \A p \in Positions :
              LET c == config.Clusters[p]
              IN  ~prev.kubeAtStart[c].sa.exists =>
                    /\ kube[c] = prev.kube[c]
                    /\ At(p, "create", "ok") = {}
                    /\ \A i \in At(p, "create", "alreadyexists") :
                          /\ i < Len(trace) => trace[i + 1].op = "sleep"
                          /\ i + 1 < Len(trace) => trace[i + 2].op = "get"
                    /\ At(p, "return", "nil") # {} =>
                          userConfig.AuthInfos[c] = prev.userConfig.AuthInfos[c]
                    /\ At(p, "return", "error") # {} =>
                          \E i \in DOMAIN trace : trace[i].pos = p /\ trace[i].op # "return"
                                                     /\ trace[i].res = "error"
        /\ (Exited /\ ~Faulted /\ \A c \in Listed : ~prev.kubeAtStart[c].sa.exists) =>
              /\ exitCode = "ok"
              /\ userConfig = prev.userConfig
              /\ stdout = <<[complete |-> TRUE, doc |-> Serialize(prev.userConfig)]>>

\* C4 witness: the second Create run over two clusters that had no identity
\* before the first run has ended, its creations answered already-exists.
C4_Witness ==
    /\ runs = 2 /\ prev.ran /\ CreateOnly /\ Exited /\ exitCode = "ok"
    /\ config.Clusters = <<"b", "a">>
    /\ \A c \in Listed : ~prev.kubeAtStart[c].sa.exists
    /\ \A p \in Positions : At(p, "create", "alreadyexists") # {}

\* C5: Rotate changes the token.  In a Rotate run, for every cluster whose
\* identity had an observable token when the run started, a token recorded
\* for the cluster differs from it, and the secret that held the old token is
\* neither referenced by the identity nor present any more.
C5_RotateChangesToken ==
    config.Rotate =>
        \A c \in DOMAIN userConfig.AuthInfos :
            Observable(kubeAtStart[c]) =>
                /\ userConfig.AuthInfos[c].Token # ObservableToken(kubeAtStart[c])
                /\ \A k \in DOMAIN kube[c].sa.Secrets :
                      kube[c].sa.Secrets[k] # kubeAtStart[c].sa.Secrets[1]
                /\ kubeAtStart[c].sa.Secrets[1] \notin DOMAIN kube[c].secrets

\* C5 witness: a Rotate run has recorded a token for a cluster whose identity
\* had an observable token before.
C5_Witness ==
    /\ config.Rotate /\ Exited /\ exitCode = "ok"
    /\ \E c \in DOMAIN userConfig.AuthInfos :
          /\ Observable(kubeAtStart[c])
          /\ ObservableToken(kubeAtStart[c]) # <<>>
          /\ userConfig.AuthInfos[c].Token # <<>>

\* C6: once a cluster has failed, nothing is written to standard output and
\* the run does not exit 0: it ends with the error exit.
C6_FailureSuppressesOutput ==
    SomeClusterFailed =>
        /\ stdout = <<>>
        /\ exitCode # "ok"
        /\ Exited => exitCode = "error"

\* C6 witness: a run has ended in which the first cluster succeeded and has
\* its entry and the second one failed.
C6_Witness ==
    /\ Exited
    /\ Len(config.Clusters) >= 2
    /\ At(1, "return", "nil") # {}
    /\ At(2, "return", "error") # {}
    /\ config.Clusters[1] \in DOMAIN userConfig.AuthInfos

\* C7: clusterExec is invoked once per list position, in list order and for
\* the cluster at that position: the first step of a run's trace is the entry
\* for position 1, every later entry directly follows the return of the
\* position before it, every call and every return lies within the invocation
\* of its position and does not follow its return (so positions only grow
\* along the trace, and no position is entered or left twice), and a run that
\* passed validation has entered and left every position when it ends.
C7_AllClustersInOrder ==
    /\ \A i \in DOMAIN trace :
          LET e == trace[i]
          IN  CASE e.op = "enter" ->
                     /\ e.pos \in Positions
                     /\ e.res = config.Clusters[e.pos]
                     /\ IF i = 1 THEN e.pos = 1
                        ELSE trace[i - 1].op = "return" /\ trace[i - 1].pos = e.pos - 1
                [] e.op = "write" ->
                     /\ i = Len(trace)
                     /\ i > 1 => trace[i - 1].op = "return"
                [] OTHER ->
                     /\ i > 1
                     /\ trace[i - 1].pos = e.pos
                     /\ trace[i - 1].op # "return"
    /\ (Exited /\ ~Rejected) =>
          \A p \in Positions :
              /\ \E i \in DOMAIN trace : trace[i].op = "enter" /\ trace[i].pos = p
              /\ \E i \in DOMAIN trace : trace[i].op = "return" /\ trace[i].pos = p

\* C7 witness: a run over two clusters has ended, the first invocation failed
\* and the second one succeeded.
C7_Witness ==
    /\ Exited
    /\ Len(config.Clusters) >= 2
    /\ At(1, "return", "error") # {}
    /\ At(2, "return", "nil") # {}

\* C8: a run with an empty team, or with Revoke together with Create or
\* Rotate, issues no call on any cluster, changes no cluster object by its
\* own action, writes nothing to standard output and ends with the error exit.
C8_ValidationFirst ==
    Rejected =>
        /\ trace = <<>>
        /\ stdout = <<>>
        /\ userConfig = NewConfig
        /\ \A c \in ClusterNames : kube[c].sa.exists = kubeAtStart[c].sa.exists
        /\ pc \in {"validate", "exited"}
        /\ Exited => exitCode = "error"

\* C8 witness: a run with a team, --revoke and --create over a non-empty
\* cluster list has ended.
C8_Witness ==
    /\ Exited /\ config.Team # "" /\ config.Revoke /\ config.Create
    /\ config.Clusters # <<>>

\* C9: an emitted credential file has the first configured cluster name as
\* its current context and a context, a user and a cluster entry for every
\* configured name, the context naming the user and cluster of its own name;
\* the identity then exists in every configured cluster.
C9_CurrentContextIsFirst ==
    \A k \in DOMAIN stdout :
        LET doc == stdout[k].doc
        IN  /\ doc.currentContext = config.Clusters[1]
            /\ \A c \in Listed :
                  /\ \E e \in doc.contexts :
                        e.name = c /\ e.context.Cluster = c /\ e.context.AuthInfo = c
                  /\ \E e \in doc.users : e.name = c
                  /\ \E e \in doc.clusters : e.name = c
                  /\ kube[c].sa.exists

\* C9 witness: --clusters=a,b --create on two clusters without identity has
\* emitted the file.
C9_Witness ==
    /\ Emitted /\ CreateOnly
    /\ config.Clusters = <<"b", "a">>
    /\ \A c \in Listed : ~kubeAtStart[c].sa.exists

\* C10: the credential file is emitted at most once, and a run whose output can
\* be encoded and written has emitted it when it ends exactly when validation
\* passed, the mode is not Revoke and no cluster failed; a Revoke run without
\* a failed cluster exits 0 with nothing on standard output.
C10_EmittedExactlyWhen ==
    /\ Len(stdout) <= 1
    /\ (Exited /\ Ops("write") \subseteq At(Len(config.Clusters) + 1, "write", "ok")) =>
          (Emitted <=> (~Rejected /\ ~config.Revoke /\ ~SomeClusterFailed))
    /\ (Exited /\ ~Rejected /\ config.Revoke /\ ~SomeClusterFailed) =>
          (exitCode = "ok" /\ stdout = <<>>)

\* The objects of cluster c are as they were when the run started, or the
\* token controller has minted the secret that an existing account lacked.
UnchangedButMinted(c) ==
    \/ kube[c] = kubeAtStart[c]
    \/ /\ kubeAtStart[c].sa.exists
       /\ kubeAtStart[c].sa.Secrets = <<>>
       /\ kube[c].sa.exists
       /\ kube[c].sa.Name = kubeAtStart[c].sa.Name
       /\ Len(kube[c].sa.Secrets) = 1

\* C11: a run in Read mode issues no delete and no create and leaves every
\* cluster as it found it (an absent identity stays absent, an existing one
\* keeps its secrets; the only change a cluster can see is the controller
\* minting a missing secret); in any mode a cluster changes only after a
\* deletion or a creation on it has succeeded.
C11_ReadNeverMutates ==
    /\ ReadMode =>
          /\ \A i \in DOMAIN trace : trace[i].op \notin {"delete", "create"}
          /\ \A c \in ClusterNames :
                /\ kube[c].sa.exists = kubeAtStart[c].sa.exists
                /\ UnchangedButMinted(c)
    /\ \A c \in ClusterNames :
          (\A i \in DOMAIN trace :
              ~(/\ trace[i].op \in {"delete", "create"}
                /\ trace[i].res = "ok"
                /\ config.Clusters[trace[i].pos] = c))
          => UnchangedButMinted(c)

\* C11 witness: a Read run has ended after it found the identity of one of
\* its clusters absent, and the identity is still absent.
C11_Witness ==
    /\ ReadMode /\ Exited
    /\ \E p \in Positions :
          /\ At(p, "get", "notfound") # {}
          /\ ~kube[config.Clusters[p]].sa.exists

\* The trace ends with clusterExec returning nil (no later step has been logged).
JustSucceeded == trace # <<>> /\ trace[Len(trace)].op = "return" /\ trace[Len(trace)].res = "nil"

\* C12: when clusterExec has just returned nil for a cluster, the cluster is
\* in the mode's target state: in Revoke mode the identity is absent; in the
\* other modes the identity is present, has a first secret, and the entry
\* recorded for the cluster holds that secret's token (the empty string when
\* the secret has no token field) and the cluster's server address.
C12_SuccessMeansTargetState ==
    JustSucceeded =>
        LET c == config.Clusters[trace[Len(trace)].pos]
        IN  IF config.Revoke
            THEN ~kube[c].sa.exists
            ELSE /\ kube[c].sa.exists
                 /\ Observable(kube[c])
                 /\ c \in DOMAIN userConfig.AuthInfos
                 /\ userConfig.AuthInfos[c].Token = ObservableToken(kube[c])
                 /\ userConfig.Clusters[c].Server = Host(c)

\* C12 witness: clusterExec has just returned nil in a run of --rotate for a
\* cluster whose account had two secret references before.
C12_Witness ==
    /\ JustSucceeded /\ config.Rotate
    /\ Len(kubeAtStart[config.Clusters[trace[Len(trace)].pos]].sa.Secrets) = 2

\* The names of the clusters for which clusterExec has returned nil so far.
Succeeded ==
    {config.Clusters[trace[i].pos] :
        i \in {j \in DOMAIN trace : trace[j].op = "return" /\ trace[j].res = "nil"}}

\* C13: at every point of a run that is not in Revoke mode, each of the three
\* maps of the accumulated structure has an entry for exactly the clusters
\* for which clusterExec has returned nil so far: a failed cluster adds none,
\* and a successful one has its entry when clusterExec returns, before the
\* loop enters the next cluster.
C13_EntriesAreSuccesses ==
    ~config.Revoke =>
        /\ DOMAIN userConfig.AuthInfos = Succeeded
        /\ DOMAIN userConfig.Clusters = Succeeded
        /\ DOMAIN userConfig.Contexts = Succeeded

\* C13 witness: the loop is in its second cluster, the first one succeeded
\* and has its entry; and then this second, different cluster fails.
C13_Witness ==
    /\ ~config.Revoke /\ Len(config.Clusters) = 2
    /\ config.Clusters[1] # config.Clusters[2]
    /\ At(1, "return", "nil") # {}
    /\ At(2, "return", "error") # {}
    /\ DOMAIN userConfig.AuthInfos = {config.Clusters[1]}

\* C14: in the fetch path a not-found answer to the identity fetch is directly
\* followed by the error return; a fetched identity without secret reference
\* makes clusterExec return an error without a secret fetch; a secret fetch is
\* issued only directly after a successful identity fetch that showed at least
\* one reference, and the token recorded after it is that of the first
\* reference; a cluster that fails this way and never succeeded has no entry.
C14_FetchFailuresAreFatal ==
    /\ \A i \in DOMAIN trace :
          /\ (trace[i].op = "get" /\ trace[i].res = "notfound") =>
                /\ i < Len(trace)
                /\ trace[i + 1].op = "return" /\ trace[i + 1].res = "error"
                /\ trace[i + 1].pos = trace[i].pos
          /\ (trace[i].op = "get" /\ trace[i].res = "ok" /\ i < Len(trace)) =>
                \/ trace[i + 1].op = "getsecret"
                \/ trace[i + 1].op = "return" /\ trace[i + 1].res = "error"
          /\ trace[i].op = "getsecret" =>
                /\ trace[i - 1].op = "get" /\ trace[i - 1].res = "ok"
                /\ trace[i - 1].pos = trace[i].pos
          /\ (/\ trace[i].op = "get"
              /\ i < Len(trace)
              /\ trace[i + 1].op = "return"
              /\ config.Clusters[trace[i].pos] \notin Succeeded) =>
                /\ config.Clusters[trace[i].pos] \notin DOMAIN userConfig.AuthInfos
                /\ config.Clusters[trace[i].pos] \notin DOMAIN userConfig.Contexts
    /\ pc = "secret" => (trace[Len(trace)].op = "get" /\ trace[Len(trace)].res = "ok")
    /\ (Len(trace) >= 2 /\ trace[Len(trace)].op = "return") =>
          LET last == trace[Len(trace) - 1]
              c == config.Clusters[last.pos]
          IN  /\ (last.op = "get" /\ last.res = "ok") => serviceAccount.Secrets = <<>>
              /\ last.op = "getsecret" =>
                    /\ serviceAccount.Secrets # <<>>
                    /\ trace[Len(trace)].res = "nil" =>
                          userConfig.AuthInfos[c].Token =
                              AuthInfo(kube[c].secrets[serviceAccount.Secrets[1]]).Token

\* C14 witness: a Create run created the identity, the delay ended before the
\* secret was minted, and clusterExec has returned the error without a secret
\* fetch.
C14_Witness ==
    /\ CreateOnly /\ pc = "loop" /\ Len(trace) >= 4
    /\ trace[Len(trace)].op = "return" /\ trace[Len(trace)].res = "error"
    /\ trace[Len(trace) - 1].op = "get" /\ trace[Len(trace) - 1].res = "ok"
    /\ trace[Len(trace) - 3].op = "create" /\ trace[Len(trace) - 3].res = "ok"
    /\ serviceAccount.Secrets = <<>>
    /\ config.Clusters[idx - 1] \notin DOMAIN userConfig.AuthInfos

\* The first secret of the account exists and has no token field.
TokenlessFirst(objects) ==
    Observable(objects)
        /\ "token" \notin DOMAIN objects.secrets[objects.sa.Secrets[1]].Data

\* C15: a fetched secret never fails the cluster, whatever its data: a
\* successful secret fetch is directly followed by the nil return; when the
\* account's first secret has no token field the entry recorded for the
\* cluster holds the empty token, and an emitted file lists that cluster's
\* user with the empty token.
C15_MissingTokenIsEmpty ==
    /\ \A i \in DOMAIN trace :
          (trace[i].op = "getsecret" /\ trace[i].res = "ok") =>
              /\ i < Len(trace)
              /\ trace[i + 1].op = "return" /\ trace[i + 1].res = "nil"
              /\ trace[i + 1].pos = trace[i].pos
    /\ (Len(trace) >= 2 /\ trace[Len(trace)].op = "return"
           /\ trace[Len(trace) - 1].op = "getsecret" /\ trace[Len(trace) - 1].res = "ok"
           /\ TokenlessFirst(kube[config.Clusters[trace[Len(trace)].pos]])) =>
          LET c == config.Clusters[trace[Len(trace)].pos]
          IN  /\ c \in DOMAIN userConfig.AuthInfos
              /\ userConfig.AuthInfos[c].Token = <<>>
              /\ c \in DOMAIN userConfig.Contexts
    /\ \A k \in DOMAIN stdout :
          \A c \in Listed :
              TokenlessFirst(kube[c]) =>
                  [name |-> c, user |-> [Token |-> <<>>]] \in stdout[k].doc.users

\* C15 witness: the file has been emitted for two clusters, the first secret
\* of one has no token field and the other cluster's token is not empty.
C15_Witness ==
    /\ Emitted /\ exitCode = "ok"
    /\ \E c \in Listed : TokenlessFirst(kube[c])
    /\ \E c \in Listed : userConfig.AuthInfos[c].Token # <<>>

\* C16: a deletion or creation that fails with an error other than not-found
\* or already-exists is directly followed by clusterExec's error return, so
\* no further call is issued for that position; the run is marked failed, and
\* the cluster has no entry unless another position of the same name succeeded.
C16_OtherErrorsAreFatal ==
    \A i \in DOMAIN trace :
        (trace[i].op \in {"delete", "create"} /\ trace[i].res = "error") =>
            /\ i < Len(trace)
            /\ trace[i + 1].op = "return" /\ trace[i + 1].res = "error"
            /\ trace[i + 1].pos = trace[i].pos
            /\ failed
            /\ config.Clusters[trace[i].pos] \notin Succeeded =>
                  /\ config.Clusters[trace[i].pos] \notin DOMAIN userConfig.AuthInfos
                  /\ config.Clusters[trace[i].pos] \notin DOMAIN userConfig.Clusters
                  /\ config.Clusters[trace[i].pos] \notin DOMAIN userConfig.Contexts

\* C16 witness: a run has ended in which one cluster's deletion failed and
\* another cluster's creation failed after its deletion had succeeded.
C16_Witness ==
    /\ Exited /\ exitCode = "error"
    /\ \E p \in Positions : At(p, "delete", "error") # {}
    /\ \E p \in Positions : At(p, "delete", "ok") # {} /\ At(p, "create", "error") # {}

\* The place of a step in clusterExec.
Rank ==
    [op \in {"enter", "resolve", "delete", "create", "sleep", "get", "getsecret",
             "return", "write"} |->
        CASE op = "enter" -> 0
          [] op = "resolve" -> 1
          [] op = "delete" -> 2
          [] op = "create" -> 3
          [] op = "sleep" -> 4
          [] op = "get" -> 5
          [] op = "getsecret" -> 6
          [] op = "return" -> 7
          [] OTHER -> 8]

\* C17: within the invocation for one list position the steps follow the
\* order delete, create, delay, identity fetch, secret fetch, each at most
\* once; a creation that answered created or already-exists is directly
\* followed by the delay and the delay by the identity fetch; the delay occurs
\* only after such a creation; the secret fetch directly follows a successful
\* identity fetch; and a call that failed with an error is directly followed
\* by the return, so nothing is retried.
C17_FixedOrderNoRetry ==
    \A i \in DOMAIN trace :
        /\ (i < Len(trace) /\ trace[i + 1].pos = trace[i].pos) =>
              Rank[trace[i].op] < Rank[trace[i + 1].op]
        /\ (trace[i].op = "create" /\ trace[i].res \in {"ok", "alreadyexists"} /\ i < Len(trace)) =>
              trace[i + 1].op = "sleep"
        /\ trace[i].op = "sleep" =>
              /\ trace[i - 1].op = "create"
              /\ trace[i - 1].res \in {"ok", "alreadyexists"}
              /\ i < Len(trace) => trace[i + 1].op = "get"
        /\ trace[i].op = "getsecret" =>
              trace[i - 1].op = "get" /\ trace[i - 1].res = "ok"
        /\ (trace[i].res = "error" /\ trace[i].op # "return") =>
              /\ i < Len(trace)
              /\ trace[i + 1].op = "return"

\* C17 witness: one invocation of a Rotate run went through all five steps,
\* and another invocation of the run ended at a failed call.
C17_Witness ==
    /\ Exited
    /\ \E p \in Positions :
          /\ At(p, "delete", "ok") # {}
          /\ At(p, "create", "ok") # {}
          /\ At(p, "sleep", "ok") # {}
          /\ At(p, "get", "ok") # {}
          /\ At(p, "getsecret", "ok") # {}
    /\ \E p \in Positions : At(p, "create", "error") # {}

\* C18: in every state the three maps of the accumulated structure have the
\* same keys, and the context stored under a name has namespace "default" and
\* names the auth entry and the cluster entry of that same name.
C18_MapsAgree ==
    /\ DOMAIN userConfig.AuthInfos = DOMAIN userConfig.Contexts
    /\ DOMAIN userConfig.Clusters = DOMAIN userConfig.Contexts
    /\ \A c \in DOMAIN userConfig.Contexts :
          /\ userConfig.Contexts[c].Namespace = "default"
          /\ userConfig.Contexts[c].AuthInfo = c
          /\ userConfig.Contexts[c].Cluster = c
          /\ userConfig.Clusters[c].Server = Host(c)

\* C18 witness: two clusters have their entries.
C18_Witness ==
    /\ Cardinality(DOMAIN userConfig.Contexts) = 2
    /\ Cardinality(DOMAIN userConfig.AuthInfos) = 2

\* C19: every run that passed validation ends with exit status 0 or with the
\* error exit, also when the cluster list is empty, and the step that sets the
\* current context is reached only with a non-empty cluster list.
C19_NormalOutcome ==
    /\ (Exited /\ ~Rejected) => exitCode \in {"ok", "error"}
    /\ pc = "write" => Len(config.Clusters) >= 1

\* C20: a deletion is issued only when Rotate or Revoke is set and a creation
\* only when Rotate or Create is set; a Revoke run issues no creation and a
\* run with Create alone issues no deletion, whatever the other calls answer.
C20_FlagsRestrictMutations ==
    \A i \in DOMAIN trace :
        /\ trace[i].op = "delete" => (config.Rotate \/ config.Revoke)
        /\ trace[i].op = "create" => (config.Rotate \/ config.Create)
        /\ config.Revoke => trace[i].op # "create"
        /\ CreateOnly => trace[i].op # "delete"

\* C20 witness: a run with Create alone has created an identity and ended,
\* its trace holding calls that failed and calls that succeeded.
C20_Witness ==
    /\ CreateOnly /\ Exited /\ Len(config.Clusters) = 2
    /\ At(1, "create", "error") # {}
    /\ At(2, "create", "ok") # {}
    /\ At(2, "get", "ok") # {}

====
